---------------------------- MODULE Spec2Model ----------------------------
(***************************************************************************)
(* A model of src/main.py: the roster store (DatabaseManager over the      *)
(* students and schedule_history tables), the ScheduleGenerator, and the   *)
(* bot's update pipeline (AllowedUsersMiddleware, the router's handlers,   *)
(* the /schedule handler split at its await points).                       *)
(*                                                                         *)
(* Texts are modelled by what the code does with them:                     *)
(*   - a surname is a natural number, ordered as SQLite's BINARY collation *)
(*     orders the UTF-8 text: 0 is the empty string "", 1..6 are the texts *)
(*     of the six commands, and 7, 8, ... are ordinary surnames;           *)
(*   - a cell text is either the placeholder or the list of joined lines;  *)
(*   - a rendered table is the sequence of its rows.                       *)
(***************************************************************************)
EXTENDS Integers, Sequences, FiniteSets, TLC

VARIABLES
    students,   \* rows of table students, in rowid (insertion) order
    history,    \* rows of table schedule_history, in rowid order
    call,       \* the last call made on the store through its interface
    gen,        \* a ScheduleGenerator driven step by step by a caller
    fsm,        \* the FSM state of each user (StudentUpdate.adding_students)
    task,       \* the running schedule_command coroutines
    file,       \* the content of schedule.xlsx
    upd         \* the last update the dispatcher processed

vars == <<students, history, call, gen, fsm, task, file, upd>>

(***************************************************************************)
(* Bounds of the model.                                                    *)
(***************************************************************************)
MaxName == 2        \* store interface: surnames are 0..MaxName (0 is "")
MaxArgs == 2        \* store interface: longest list handed to add
MaxHistory == 2     \* store interface: most records written
MaxNames == 5       \* generator: largest roster handed to the constructor
MaxFloors == 2      \* generator: largest num_floors
MaxSections == 2    \* generator: longest places list
MaxStored == 2      \* bot: most students in the database at start-up
MaxTokens == 2      \* bot: most comma-separated parts of a message text
NumInitial == 9     \* bot: length of initial_students (29 in the source)
FreeDraws == 1      \* bot: iterations of random.shuffle that draw freely

(***************************************************************************)
(* Program constants.                                                      *)
(***************************************************************************)
NumPlaces == 3      \* places = ["Начальная", "Центр", "Старшая"]
NumFloors == 3      \* num_floors = 3

EmptyName == 0      \* "", as name.strip() leaves a blank part
FirstSurname == 7   \* the least ordinary surname ("Атаманова")

\* the texts of the commands, which sort between "" and the surnames
CommandText ==
    [audit |-> 1, edit_students |-> 2, help |-> 3, schedule |-> 4,
     start |-> 5, stats |-> 6]

Range(s) == {s[i] : i \in 1..Len(s)}

SeqsUpTo(S, n) == UNION {[1..k -> S] : k \in 0..n}

(***************************************************************************)
(* DatabaseManager                                                         *)
(***************************************************************************)

\* ORDER BY surname ASC: insertion of one row into an ascending list.
RECURSIVE InsertAsc(_, _)
InsertAsc(sorted, x) ==
    IF sorted = << >> THEN <<x>>
    ELSE IF x <= Head(sorted) THEN <<x>> \o sorted
    ELSE <<Head(sorted)>> \o InsertAsc(Tail(sorted), x)

RECURSIVE OrderByAsc(_)
OrderByAsc(rows) ==
    IF rows = << >> THEN << >>
    ELSE InsertAsc(OrderByAsc(Tail(rows)), Head(rows))

\* SELECT surname FROM students ORDER BY surname ASC
get_all_students(rows) == OrderByAsc(rows)

\* One INSERT INTO students: surname is UNIQUE, the IntegrityError is passed.
InsertAlways(rows, surname) == Append(rows, surname)

InsertStudent(rows, surname) ==
    IF surname \in Range(rows) THEN rows ELSE Append(rows, surname)

RECURSIVE add_students(_, _)
add_students(rows, surnames) ==
    IF surnames = << >> THEN rows
    ELSE add_students(InsertStudent(rows, Head(surnames)), Tail(surnames))

\* DELETE FROM students WHERE surname = ?; returns cursor.rowcount > 0
remove_student(rows, surname) ==
    LET kept == SelectSeq(rows, LAMBDA r : r # surname)
    IN  [rows |-> kept, ret |-> (Len(rows) - Len(kept)) > 0]

\* INSERT INTO schedule_history (schedule) VALUES (?)
RecordUnlessKnown(rows, schedule) ==
    IF schedule \in Range(rows) THEN rows ELSE Append(rows, schedule)

add_schedule_history(rows, schedule) == Append(rows, schedule)

\* SELECT COUNT(*) FROM schedule_history
count_schedules(rows) == Len(rows)

(***************************************************************************)
(* Cell texts and tables                                                   *)
(***************************************************************************)

\* '\n'.join(participants) if participants else 'Нет участников'
CellText(participants) ==
    IF participants # << >>
    THEN [placeholder |-> FALSE, lines |-> participants]
    ELSE [placeholder |-> TRUE, lines |-> << >>]

(***************************************************************************)
(* ScheduleGenerator                                                       *)
(***************************************************************************)
NoSelf ==
    [surnames |-> << >>, places |-> << >>, num_floors |-> 0,
     sections |-> << >>, table |-> << >>]

NoFile == [written |-> FALSE, header |-> << >>, rows |-> << >>]

NoArgs == [surnames |-> << >>, places |-> << >>, num_floors |-> 0]

NoGen == [phase |-> "none", args |-> NoArgs, self |-> NoSelf, xlsx |-> NoFile]

\* __init__: raises ValueError, or yields the object with one empty bucket
\* per place and an empty table.
InitAcceptsZeroFloors(surnames, places, num_floors) ==
    IF num_floors < 0 \/ places = << >>
    THEN [raised |-> TRUE, self |-> NoSelf]
    ELSE [raised |-> FALSE,
          self |-> [surnames |-> surnames, places |-> places,
                    num_floors |-> num_floors,
                    sections |-> [b \in 1..Len(places) |-> << >>],
                    table |-> << >>]]

ScheduleGenerator_init(surnames, places, num_floors) ==
    IF num_floors <= 0 THEN [raised |-> TRUE, self |-> NoSelf]
    ELSE IF places = << >> THEN [raised |-> TRUE, self |-> NoSelf]
    ELSE [raised |-> FALSE,
          self |-> [surnames |-> surnames, places |-> places,
                    num_floors |-> num_floors,
                    sections |-> [b \in 1..Len(places) |-> << >>],
                    table |-> << >>]]

\* x[i], x[j] = x[j], x[i] with 0-based i, j
Swap(x, i, j) == [x EXCEPT ![i + 1] = x[j + 1], ![j + 1] = x[i + 1]]

\* random.shuffle(x): for i in reversed(range(1, len(x))): j = randbelow(i + 1);
\* swap x[i], x[j].  The first `free` iterations draw any j in 0..i; the
\* later ones are bounded to the draw j = i.  The set of possible results.
RECURSIVE FisherYates(_, _, _)
FisherYates(x, i, free) ==
    IF i < 1 THEN {x}
    ELSE UNION { FisherYates(Swap(x, i, j), i - 1, free - 1) :
                    j \in (IF free > 0 THEN 0..i ELSE {i}) }

shuffle_surnames(self, free) ==
    { [self EXCEPT !.surnames = x] :
        x \in FisherYates(self.surnames, Len(self.surnames) - 1, free) }

\* for i, surname in enumerate(self.surnames):
\*     self.sections[i % len(self.places)].append(surname)
RECURSIVE DistributeFrom(_, _, _, _)
DistributeFrom(sections, surnames, i, stop) ==
    IF i >= stop THEN sections
    ELSE DistributeFrom(
            [sections EXCEPT ![(i % Len(sections)) + 1] = Append(@, surnames[i + 1])],
            surnames, i + 1, stop)

DistributeSkipsLast(self) ==
    [self EXCEPT !.sections =
        DistributeFrom(self.sections, self.surnames, 0, Len(self.surnames) - 1)]

distribute_participants(self) ==
    [self EXCEPT !.sections =
        DistributeFrom(self.sections, self.surnames, 0, Len(self.surnames))]

Min(a, b) == IF a <= b THEN a ELSE b

\* s[start:end] for 0 <= start <= end
Slice(s, start, end) == SubSeq(s, Min(start, Len(s)) + 1, Min(end, Len(s)))

\* len(self.surnames) // total_cells if total_cells > 0 else 0
ParticipantsPerCell(self) ==
    LET total_cells == self.num_floors * Len(self.places)
    IN  IF total_cells > 0 THEN Len(self.surnames) \div total_cells ELSE 0

\* the row create_schedule builds for 0-based floor
ScheduleRow(self, floor, participants_per_cell) ==
    [floor |-> floor + 1,
     cells |-> [i \in 1..Len(self.places) |->
                  LET start_index == floor * participants_per_cell
                      end_index == start_index + participants_per_cell
                  IN  CellText(Slice(self.sections[i], start_index, end_index))]]

CreateScheduleWith(self, participants_per_cell) ==
    [self EXCEPT !.table =
        self.table \o [f \in 1..self.num_floors |->
                          ScheduleRow(self, f - 1, participants_per_cell)]]

CreateScheduleOverlapping(self) ==
    [self EXCEPT !.table =
        self.table \o [f \in 1..self.num_floors |->
            [floor |-> f,
             cells |-> [i \in 1..Len(self.places) |->
                LET start_index == (f - 1) * ParticipantsPerCell(self)
                    end_index == start_index + ParticipantsPerCell(self) + 1
                IN  CellText(Slice(self.sections[i], start_index, end_index))]]]]

CreateScheduleAtLeastOne(self) ==
    CreateScheduleWith(self,
        IF ParticipantsPerCell(self) = 0 THEN 1 ELSE ParticipantsPerCell(self))

create_schedule(self) == CreateScheduleWith(self, ParticipantsPerCell(self))

\* The DataFrame save_to_excel builds column by column (data[place] =
\* col_data) and writes row by row below the header.
ExcelColumn(self, i, participants_per_cell) ==
    [f \in 1..self.num_floors |->
        LET start_index == (f - 1) * participants_per_cell
            end_index == start_index + participants_per_cell
        IN  CellText(Slice(self.sections[i], start_index, end_index))]

SaveToExcelWith(self, participants_per_cell) ==
    LET floors == [f \in 1..self.num_floors |-> f]
        data == [i \in 1..Len(self.places) |->
                    ExcelColumn(self, i, participants_per_cell)]
    IN  [written |-> TRUE,
         header |-> self.places,
         rows |-> [r \in 1..Len(floors) |->
                     [floor |-> floors[r],
                      cells |-> [i \in 1..Len(self.places) |-> data[i][r]]]]]

SaveToExcelRoundsUp(self) ==
    LET total_cells == self.num_floors * Len(self.places)
    IN  SaveToExcelWith(self,
            IF total_cells > 0
            THEN (Len(self.surnames) + total_cells - 1) \div total_cells ELSE 0)

save_to_excel(self) == SaveToExcelWith(self, ParticipantsPerCell(self))

\* self.table.get_string(): the rendered rows
get_string(self) == self.table

NoCall == [op |-> "none", ok |-> FALSE, rows |-> << >>, n |-> 0]
NoUpd == [tick |-> 0, user |-> 0, handled |-> FALSE]

(***************************************************************************)
(* The store used through its interface (StudentSurnames / db_manager).    *)
(***************************************************************************)
StoreNames == 0..MaxName

\* The text handed to record_schedule: a rendered one-row table.
Texts == { <<[floor |-> 1, cells |-> <<CellText(<< >>)>>]>> }

InitStore ==
    /\ students = << >>
    /\ history = << >>
    /\ call = NoCall
    /\ gen = NoGen
    /\ fsm = << >>
    /\ task = << >>
    /\ file = NoFile
    /\ upd = NoUpd

StoreAdd(names) ==
    /\ students' = add_students(students, names)
    /\ call' = [NoCall EXCEPT !.op = "add"]
    /\ UNCHANGED <<history, gen, fsm, task, file, upd>>

StoreRemove(name) ==
    LET r == remove_student(students, name)
    IN  /\ students' = r.rows
        /\ call' = [NoCall EXCEPT !.op = "remove", !.ok = r.ret]
        /\ UNCHANGED <<history, gen, fsm, task, file, upd>>

StoreListAll ==
    /\ call' = [NoCall EXCEPT !.op = "list_all", !.rows = get_all_students(students)]
    /\ UNCHANGED <<students, history, gen, fsm, task, file, upd>>

StoreRecord(text) ==
    /\ Len(history) < MaxHistory
    /\ history' = add_schedule_history(history, text)
    /\ call' = [NoCall EXCEPT !.op = "record_schedule"]
    /\ UNCHANGED <<students, gen, fsm, task, file, upd>>

StoreCount ==
    /\ call' = [NoCall EXCEPT !.op = "count_schedules", !.n = count_schedules(history)]
    /\ UNCHANGED <<students, history, gen, fsm, task, file, upd>>

NextStore ==
    \/ \E names \in SeqsUpTo(StoreNames, MaxArgs) : StoreAdd(names)
    \/ \E name \in StoreNames : StoreRemove(name)
    \/ StoreListAll
    \/ \E text \in Texts : StoreRecord(text)
    \/ StoreCount

SpecStore == InitStore /\ [][NextStore]_vars

(***************************************************************************)
(* One ScheduleGenerator driven by a caller in the order schedule_command  *)
(* calls it: __init__, shuffle_surnames, distribute_participants,          *)
(* create_schedule, save_to_excel.                                         *)
(***************************************************************************)
Roster(n) == [i \in 1..n |-> FirstSurname + i - 1]
RosterDesc(n) == [i \in 1..n |-> FirstSurname + n - i]
PlaceLabels(k) == [i \in 1..k |-> i]

GenArgs ==
    [surnames : {Roster(n) : n \in 0..MaxNames} \cup {RosterDesc(n) : n \in 0..MaxNames},
     places : {PlaceLabels(k) : k \in 0..MaxSections},
     num_floors : -1..MaxFloors]

InitGen ==
    /\ students = << >>
    /\ history = << >>
    /\ call = NoCall
    /\ gen \in {[NoGen EXCEPT !.phase = "new", !.args = a] : a \in GenArgs}
    /\ fsm = << >>
    /\ task = << >>
    /\ file = NoFile
    /\ upd = NoUpd

GenConstruct ==
    /\ gen.phase = "new"
    /\ LET r == ScheduleGenerator_init(gen.args.surnames, gen.args.places,
                                       gen.args.num_floors)
       IN  gen' = [gen EXCEPT !.phase = IF r.raised THEN "raised" ELSE "constructed",
                              !.self = r.self]
    /\ UNCHANGED <<students, history, call, fsm, task, file, upd>>

GenShuffle ==
    /\ gen.phase = "constructed"
    /\ \E shuffled \in shuffle_surnames(gen.self, Len(gen.self.surnames)) :
          gen' = [gen EXCEPT !.phase = "shuffled", !.self = shuffled]
    /\ UNCHANGED <<students, history, call, fsm, task, file, upd>>

GenDistribute ==
    /\ gen.phase = "shuffled"
    /\ gen' = [gen EXCEPT !.phase = "distributed",
                          !.self = distribute_participants(gen.self)]
    /\ UNCHANGED <<students, history, call, fsm, task, file, upd>>

GenCreateSchedule ==
    /\ gen.phase = "distributed"
    /\ gen' = [gen EXCEPT !.phase = "rendered", !.self = create_schedule(gen.self)]
    /\ UNCHANGED <<students, history, call, fsm, task, file, upd>>

GenSaveToExcel ==
    /\ gen.phase = "rendered"
    /\ gen' = [gen EXCEPT !.phase = "exported", !.xlsx = save_to_excel(gen.self)]
    /\ UNCHANGED <<students, history, call, fsm, task, file, upd>>

NextGen ==
    \/ GenConstruct
    \/ GenShuffle
    \/ GenDistribute
    \/ GenCreateSchedule
    \/ GenSaveToExcel

SpecGen == InitGen /\ [][NextGen]_vars

(***************************************************************************)
(* Properties of the generator                                             *)
(***************************************************************************)
Abs(n) == IF n < 0 THEN -n ELSE n

\* the places (bucket, index) of the buckets, and of the table's cell lines
BucketSlots(self) ==
    {<<b, k>> \in (1..Len(self.sections)) \X (1..Len(self.surnames)) :
        k <= Len(self.sections[b])}

CellSlots(rows) ==
    UNION { UNION { {<<f, b, k>> : k \in 1..Len(rows[f].cells[b].lines)} :
                        b \in 1..Len(rows[f].cells) } : f \in 1..Len(rows) }

InCells(rows, name) ==
    {s \in CellSlots(rows) : rows[s[1]].cells[s[2]].lines[s[3]] = name}

\* C1: after __init__, shuffle_surnames and distribute_participants every
\* name of the caller's roster is in exactly one place of exactly one
\* bucket, the buckets hold no other name, and any two bucket sizes differ
\* by at most 1.
C1_Distributed ==
    gen.phase \in {"distributed", "rendered", "exported"} =>
        /\ \A name \in Range(gen.args.surnames) :
              Cardinality({s \in BucketSlots(gen.self) :
                              gen.self.sections[s[1]][s[2]] = name}) = 1
        /\ \A s \in BucketSlots(gen.self) :
              gen.self.sections[s[1]][s[2]] \in Range(gen.args.surnames)
        /\ \A b1, b2 \in 1..Len(gen.self.sections) :
              Abs(Len(gen.self.sections[b1]) - Len(gen.self.sections[b2])) <= 1

C1_Witness ==
    /\ gen.phase = "distributed"
    /\ Len(gen.args.surnames) = 5
    /\ Len(gen.args.places) = 2
    /\ gen.self.surnames # gen.args.surnames

\* C2: after create_schedule no name is in more than one cell of the grid,
\* and exactly n - F*S*floor(n / (F*S)) names of the roster are in no cell.
C2_CellsAndDrops ==
    gen.phase \in {"rendered", "exported"} =>
        LET n == Len(gen.args.surnames)
            cells == gen.args.num_floors * Len(gen.args.places)
        IN  /\ \A name \in Range(gen.args.surnames) :
                  Cardinality(InCells(gen.self.table, name)) <= 1
            /\ Cardinality({name \in Range(gen.args.surnames) :
                               InCells(gen.self.table, name) = {}})
                 = n - cells * (n \div cells)

C2_Witness ==
    /\ gen.phase = "rendered"
    /\ Len(gen.args.surnames) = 5
    /\ gen.args.num_floors = 2
    /\ Len(gen.args.places) = 2
    /\ Cardinality({name \in Range(gen.args.surnames) :
                       InCells(gen.self.table, name) = {}}) = 1

C7_ExcelIsTable ==
    gen.phase = "exported" =>
        /\ gen.xlsx.written
        /\ Len(gen.xlsx.rows) = Len(gen.self.table)
        /\ \A f \in 1..Len(gen.self.table) :
              /\ gen.xlsx.rows[f].floor = gen.self.table[f].floor
              /\ Len(gen.xlsx.rows[f].cells) = Len(gen.self.table[f].cells)
              /\ \A b \in 1..Len(gen.self.table[f].cells) :
                    gen.xlsx.rows[f].cells[b] = gen.self.table[f].cells[b]

C7_Witness ==
    /\ gen.phase = "exported"
    /\ Len(gen.args.surnames) = 5
    /\ Len(gen.self.table) = 2
    /\ \E b \in 1..Len(gen.self.table[1].cells) :
          ~gen.self.table[1].cells[b].placeholder

\* C10: with fewer names than cells (per_cell = 0) create_schedule yields
\* one row per floor, every cell the placeholder, and no name in the grid.
C10_AllPlaceholders ==
    (/\ gen.phase \in {"rendered", "exported"}
     /\ Len(gen.args.surnames) < gen.args.num_floors * Len(gen.args.places)) =>
        /\ Len(gen.self.table) = gen.args.num_floors
        /\ \A f \in 1..Len(gen.self.table) :
              /\ Len(gen.self.table[f].cells) = Len(gen.args.places)
              /\ \A b \in 1..Len(gen.self.table[f].cells) :
                    gen.self.table[f].cells[b] = CellText(<< >>)
        /\ CellSlots(gen.self.table) = {}

C10_Witness ==
    /\ gen.phase = "rendered"
    /\ Len(gen.args.surnames) = 3
    /\ gen.args.num_floors = 2
    /\ Len(gen.args.places) = 2

(***************************************************************************)
(* The bot: updates pass AllowedUsersMiddleware (registered on dp.update,  *)
(* so the event is the Update object) and reach the first handler of the   *)
(* router whose filter matches.  Every update is handled in a task of its  *)
(* own; schedule_command is the handler whose effects straddle its awaits, *)
(* and it is split there.                                                  *)
(***************************************************************************)
ALLOWED_USERS == {1}
UserIds == {1, 2}
NoUser == 0
Tasks == {"t1", "t2"}

Commands == {"start", "help", "schedule", "edit_students", "stats", "audit"}

\* a part of message.text between commas: a name, padded with blanks or not
RawParts(names) == [pad : BOOLEAN, core : names \cup {EmptyName}]

\* name.strip()
strip(part) == part.core

NoMessage == [present |-> FALSE, from_user |-> NoUser, command |-> "none", parts |-> << >>]
NoCallback == [present |-> FALSE, from_user |-> NoUser, prefix |-> "none", student |-> EmptyName]

\* The Update of a message: message.text split at the commas
MessageUpdate(user, command, parts) ==
    [cls |-> "Update",
     message |-> [present |-> TRUE, from_user |-> user, command |-> command, parts |-> parts],
     callback_query |-> NoCallback]

\* The Update of a callback query: data is prefix + student
CallbackUpdate(user, prefix, student) ==
    [cls |-> "Update",
     message |-> NoMessage,
     callback_query |-> [present |-> TRUE, from_user |-> user, prefix |-> prefix,
                         student |-> student]]

InputNames == {FirstSurname + MaxStored}

Updates ==
    {MessageUpdate(u, c, <<[pad |-> FALSE, core |-> CommandText[c]]>>) :
        u \in UserIds, c \in Commands}
    \cup {MessageUpdate(u, "none", parts) :
            u \in UserIds,
            parts \in SeqsUpTo(RawParts(InputNames), MaxTokens) \ {<< >>}}
    \cup {CallbackUpdate(u, p, n) :
            u \in UserIds,
            p \in {"delete:", "confirm_delete:", "cancel_delete:"},
            n \in InputNames}
    \cup {CallbackUpdate(u, p, EmptyName) : u \in UserIds, p \in {"add_student", "other"}}

\* who sent the update
Sender(event) ==
    IF event.message.present THEN event.message.from_user
    ELSE event.callback_query.from_user

\* hasattr(event, "from_user"): Message and CallbackQuery have it, Update not
HasFromUser(event) == event.cls \in {"Message", "CallbackQuery"}

\* AllowedUsersMiddleware.__call__: TRUE when handler(event, data) is called
AllowedUsersMiddleware(event) ==
    LET user ==
          IF HasFromUser(event) /\ event.from_user # NoUser THEN event.from_user
          ELSE IF event.message.present /\ event.message.from_user # NoUser
               THEN event.message.from_user
          ELSE NoUser
    IN  ~(user # NoUser /\ user \notin ALLOWED_USERS)

\* The router: the first registered handler whose filter matches.  (No
\* handler of the model raises, so GlobalErrorHandler only passes on.)
Route(event, state) ==
    IF event.message.present THEN
        LET m == event.message
        IN  IF m.command = "start" THEN "start_command"
            ELSE IF m.command = "help" THEN "help_command"
            ELSE IF m.command = "schedule" THEN "schedule_command"
            ELSE IF m.command = "edit_students" THEN "edit_students_command"
            ELSE IF state = "adding_students" THEN "add_student_handler"
            ELSE IF m.command = "stats" THEN "stats_command"
            ELSE IF m.command = "audit" THEN "audit_command"
            ELSE "none"
    ELSE
        LET c == event.callback_query
        IN  IF c.prefix = "delete:" THEN "request_delete"
            ELSE IF c.prefix = "confirm_delete:" THEN "confirm_delete"
            ELSE IF c.prefix = "cancel_delete:" THEN "cancel_delete"
            ELSE IF c.prefix = "add_student" THEN "process_add_request"
            ELSE "none"

\* Bound on the updates: no /stats or /audit text is sent by a user whose
\* state is adding_students (the router would hand it to add_student_handler,
\* registered first, and the command text would become a student).
Arrives(event) ==
    ~(/\ event.message.present
      /\ event.message.command \in {"stats", "audit"}
      /\ fsm[Sender(event)] = "adding_students")

\* the update reaches handler h
Reaches(event, h) ==
    /\ Arrives(event)
    /\ AllowedUsersMiddleware(event)
    /\ Route(event, fsm[Sender(event)]) = h

\* the dispatcher is through with the update; h is the handler that ran
Handled(event, h) ==
    upd' = [tick |-> 1 - upd.tick, user |-> Sender(event), handled |-> h # "none"]

\* lines 104-114: an empty database gets initial_students
initial_students == Roster(NumInitial)

Startup(stored) ==
    IF get_all_students(stored) = << >> THEN add_students(stored, initial_students)
    ELSE stored

IdleTask == [pc |-> "idle", generator |-> NoSelf, table |-> << >>, document |-> NoFile]

InitBotFrom(stored) ==
    /\ students = Startup(stored)
    /\ history = << >>
    /\ call = NoCall
    /\ gen = NoGen
    /\ fsm = [u \in UserIds |-> "none"]
    /\ task = [t \in Tasks |-> IdleTask]
    /\ file = NoFile
    /\ upd = NoUpd

\* AllowedUsersMiddleware returns without calling the handler
AccessDenied(event) ==
    /\ ~AllowedUsersMiddleware(event)
    /\ Handled(event, "none")
    /\ UNCHANGED <<students, history, call, gen, fsm, task, file>>

\* no handler of the router matches the update
Unhandled(event) ==
    /\ Reaches(event, "none")
    /\ Handled(event, "none")
    /\ UNCHANGED <<students, history, call, gen, fsm, task, file>>

\* The handlers that only reply (or edit the bot's own message): they read
\* the store at most.
start_command(event) ==
    /\ Reaches(event, "start_command")
    /\ Handled(event, "start_command")
    /\ UNCHANGED <<students, history, call, gen, fsm, task, file>>

help_command(event) ==
    /\ Reaches(event, "help_command")
    /\ Handled(event, "help_command")
    /\ UNCHANGED <<students, history, call, gen, fsm, task, file>>

edit_students_command(event) ==
    /\ Reaches(event, "edit_students_command")
    /\ Handled(event, "edit_students_command")
    /\ UNCHANGED <<students, history, call, gen, fsm, task, file>>

request_delete(event) ==
    /\ Reaches(event, "request_delete")
    /\ Handled(event, "request_delete")
    /\ UNCHANGED <<students, history, call, gen, fsm, task, file>>

cancel_delete(event) ==
    /\ Reaches(event, "cancel_delete")
    /\ Handled(event, "cancel_delete")
    /\ UNCHANGED <<students, history, call, gen, fsm, task, file>>

stats_command(event) ==
    /\ Reaches(event, "stats_command")
    /\ Handled(event, "stats_command")
    /\ UNCHANGED <<students, history, call, gen, fsm, task, file>>

audit_command(event) ==
    /\ Reaches(event, "audit_command")
    /\ Handled(event, "audit_command")
    /\ UNCHANGED <<students, history, call, gen, fsm, task, file>>

confirm_delete(event) ==
    /\ Reaches(event, "confirm_delete")
    /\ students' = remove_student(students, event.callback_query.student).rows
    /\ Handled(event, "confirm_delete")
    /\ UNCHANGED <<history, call, gen, fsm, task, file>>

process_add_request(event) ==
    /\ Reaches(event, "process_add_request")
    /\ fsm' = [fsm EXCEPT ![Sender(event)] = "adding_students"]
    /\ Handled(event, "process_add_request")
    /\ UNCHANGED <<students, history, call, gen, task, file>>

\* [name.strip() for name in message.text.split(',') if name.strip()]
new_students(parts) ==
    LET stripped == [i \in 1..Len(parts) |-> strip(parts[i])]
    IN  SelectSeq(stripped, LAMBDA name : name # EmptyName)

add_student_handler(event) ==
    /\ Reaches(event, "add_student_handler")
    /\ LET names == new_students(event.message.parts)
       IN  IF names = << >>
           THEN UNCHANGED <<students, fsm>>
           ELSE /\ students' = add_students(students, names)
                /\ fsm' = [fsm EXCEPT ![Sender(event)] = "none"]
    /\ Handled(event, "add_student_handler")
    /\ UNCHANGED <<history, call, gen, task, file>>

\* schedule_command up to `await message.reply(schedule_text)`
schedule_command(event, t) ==
    /\ Reaches(event, "schedule_command")
    /\ task[t].pc = "idle"
    /\ Len(history) + Cardinality({x \in Tasks : task[x].pc = "replied"}) < MaxHistory
    /\ LET surnames == get_all_students(students)
           made == ScheduleGenerator_init(surnames, PlaceLabels(NumPlaces), NumFloors)
       IN  /\ ~made.raised
           /\ \E shuffled \in shuffle_surnames(made.self, FreeDraws) :
                 LET generator == create_schedule(distribute_participants(shuffled))
                 IN  task' = [task EXCEPT ![t] =
                                [pc |-> "replied", generator |-> generator,
                                 table |-> get_string(generator), document |-> NoFile]]
    /\ Handled(event, "schedule_command")
    /\ UNCHANGED <<students, history, call, gen, fsm, file>>

\* from the first await to `await message.reply_document(document)`
schedule_save(t) ==
    /\ task[t].pc = "replied"
    /\ file' = save_to_excel(task[t].generator)
    /\ history' = add_schedule_history(history, get_string(task[t].generator))
    /\ task' = [task EXCEPT ![t] = [@ EXCEPT !.pc = "uploading", !.generator = NoSelf]]
    /\ UNCHANGED <<students, call, gen, fsm, upd>>

\* reply_document reads schedule.xlsx (FSInputFile) when the request is sent
schedule_upload(t) ==
    /\ task[t].pc = "uploading"
    /\ task' = [task EXCEPT ![t] = [@ EXCEPT !.pc = "done", !.document = file]]
    /\ UNCHANGED <<students, history, call, gen, fsm, file, upd>>

\* the coroutine is over; the slot serves a later /schedule
schedule_return(t) ==
    /\ task[t].pc = "done"
    /\ task' = [task EXCEPT ![t] = IdleTask]
    /\ UNCHANGED <<students, history, call, gen, fsm, file, upd>>

\* The bot with one schedule_command running at a time.
Next ==
    \/ \E event \in Updates :
          \/ AccessDenied(event)
          \/ Unhandled(event)
          \/ start_command(event)
          \/ help_command(event)
          \/ edit_students_command(event)
          \/ request_delete(event)
          \/ confirm_delete(event)
          \/ cancel_delete(event)
          \/ process_add_request(event)
          \/ add_student_handler(event)
          \/ stats_command(event)
          \/ audit_command(event)
          \/ schedule_command(event, "t1")
    \/ schedule_save("t1")
    \/ schedule_upload("t1")
    \/ schedule_return("t1")

\* the database held some students when the bot started
Init == \E n \in 1..MaxStored : InitBotFrom(Roster(n))

Spec == Init /\ [][Next]_vars

\* Two /schedule commands whose coroutines overlap, on the roster a fresh
\* database gets.
NextRace ==
    \/ \E event \in Updates : \E t \in Tasks : schedule_command(event, t)
    \/ \E t \in Tasks : schedule_save(t)
    \/ \E t \in Tasks : schedule_upload(t)

InitRace == InitBotFrom(<< >>)

SpecRace == InitRace /\ [][NextRace]_vars

(***************************************************************************)
(* Properties of the store                                                 *)
(***************************************************************************)
StrictlyAscending(s) == \A i \in 1..(Len(s) - 1) : s[i] < s[i + 1]

\* C4: the roster behaves as a set: add is set union, remove is set
\* difference and returns whether the name was in the set (changing nothing
\* when it was not), and list_all is the set in strictly ascending order.
C4_StoreStep ==
    /\ \A names \in SeqsUpTo(StoreNames, MaxArgs) :
          StoreAdd(names) => Range(students') = Range(students) \cup Range(names)
    /\ \A name \in StoreNames :
          StoreRemove(name) =>
              /\ call'.ok <=> name \in Range(students)
              /\ Range(students') = Range(students) \ {name}
              /\ ~call'.ok => students' = students
    /\ StoreListAll =>
          /\ StrictlyAscending(call'.rows)
          /\ Range(call'.rows) = Range(students)
          /\ Len(call'.rows) = Cardinality(Range(students))

\* C4: every step of the store is such a step: after any sequence of add
\* and remove, list_all is the ascending, duplicate-free roster set.
C4_RosterIsSortedSet == [][C4_StoreStep]_vars

C4_Witness ==
    /\ call.op = "list_all"
    /\ students = <<2, 1>>
    /\ call.rows = <<1, 2>>

\* C5: every stored name is non-empty and no name is stored twice.
C5_NonEmptyUnique ==
    /\ \A i \in 1..Len(students) : students[i] # EmptyName
    /\ \A i, j \in 1..Len(students) : i # j => students[i] # students[j]

(***************************************************************************)
(* Properties of the bot                                                   *)
(***************************************************************************)

\* C3: an update whose sender is not in ALLOWED_USERS reaches no handler
\* and leaves the roster and the history as they were.
C3_DeniedStep ==
    (upd'.tick # upd.tick /\ upd'.user \notin ALLOWED_USERS) =>
        /\ ~upd'.handled
        /\ students' = students
        /\ history' = history

\* C3: every update of a sender outside ALLOWED_USERS, message or callback
\* query, is stopped by AllowedUsersMiddleware before any handler runs.
C3_DeniedReachesNoHandler == [][C3_DeniedStep]_vars

\* schedule_command records its table (store_schedule_history) in this step
Records(t) == task[t].pc = "replied" /\ task'[t].pc = "uploading"

\* C8: the step that records a schedule adds exactly one record after the
\* existing ones, whatever its text; every other step leaves the records
\* as they are.
C8_HistoryStep ==
    IF \E t \in Tasks : Records(t)
    THEN /\ Len(history') = Len(history) + 1
         /\ SubSeq(history', 1, Len(history)) = history
    ELSE history' = history

\* C8: the schedule history is append-only: one more record per recorded
\* schedule, and no other operation changes the records.
C8_HistoryAppendOnly == [][C8_HistoryStep]_vars

C8_Witness ==
    /\ Len(history) = 2
    /\ history[1] = history[2]
    /\ \E i \in 1..Len(students) : students[i] \in InputNames

\* C9: the document each /schedule sends holds the grid of the table the
\* same command replied with.
C9_DocumentIsTable ==
    \A t \in Tasks :
        task[t].pc = "done" =>
            /\ task[t].document.written
            /\ task[t].document.rows = task[t].table

=============================================================================
